---- MODULE Spec2Model ----
(***************************************************************************)
(* Power-down manager of components/bpp-recv/powerdown.c.                  *)
(*                                                                         *)
(* State: the linked list of PowerItems (powerItems), the persisted wake   *)
(* timestamp table (savedWakeTimestamp), the power mode set at init        *)
(* (powerMode), the periodic timer (tmr) and the wall clock read by        *)
(* gettimeofday.  Every handler runs between xSemaphoreTake(mux) and       *)
(* xSemaphoreGive(mux), so each is one atomic action; the clock does not   *)
(* move inside a handler.                                                  *)
(*                                                                         *)
(* Integer widths.  savedWakeTimestamp and getCurrentTimeMs() are uint64_t *)
(* and the sleep time handed to doSleep is an int.  Every value of the     *)
(* model lies within 2^30 of 0 modulo 2^64, so a uint64_t is represented   *)
(* by its residue in (-2^63, 2^63): 2^64-1 is written -1.  In that window  *)
(* addition and subtraction modulo 2^64 are plain + and -, the conversion  *)
(* uint64_t -> int keeps the residue, and only the unsigned comparison     *)
(* differs from the integer one (U64Less).                                 *)
(***************************************************************************)
EXTENDS Integers, Sequences, FiniteSets, TLC

VARIABLES
    powerItems,          \* list of PowerItem, head first
    savedWakeTimestamp,  \* RTC_DATA_ATTR uint64_t [NO_POWER_MODES]
    powerMode,           \* static PowerMode powerMode
    clock,               \* struct timeval that gettimeofday() returns
    tmr,                 \* expiry time (ms) of the periodic timer
    pass,                \* record of the handler that ran last, the last call of
                         \* each owner and the time of the last pass (history)
    mux,                 \* static SemaphoreHandle_t mux: the task holding it
    thr                  \* where each task is inside the manager's functions

vars == <<powerItems, savedWakeTimestamp, powerMode, clock, tmr, pass, mux, thr>>

ST_ACTIVE == 0
ST_CANSLEEP == 1
ST_CANSLEEP_UNTIL == 2

\* Number of power modes (powerdown.h); the table and the mode loops range over it.
NO_POWER_MODES == 3

\* Timer period in ms: xTimerCreate("pwrdwnmgr", 5000/portTICK_PERIOD_MS, ...)
TIMER_PERIOD_MS == 5000

\* The callback installed by powerDownMgrInit (pdCb != NULL).
pdCb == TRUE

--------------------------------------------------------------------------
\* Bounds of the model and the inputs drawn by the environment.

\* Number of clock steps the model lets pass.
MaxTicks == 5
\* The clock advances in steps of this many ms.
ElapseMs == {1000}
\* Clock value at powerDownMgrInit (1500 ms).
BootTime == [tv_sec |-> 1, tv_usec |-> 500000]
\* Owner references (the ref argument).
Refs == {1, 2}
\* holdTimeMs arguments of _powerHold.
HoldTimes == {1000}
\* delayMs arguments of _powerCanSleepFor.
Delays == {1500, 3000}
\* Contents of the persisted table at boot (ms timestamps written by earlier
\* boots, one per mode): empty; two modes long due; one mode due one second
\* after boot next to two modes with equal timestamps.
WakeTables ==
    { <<0, 0, 0>>, <<0, 1000, 1200>>, <<4500, 2500, 4500>> }

\* The long run: _powerHold and _powerCanSleepFor are called during the first
\* CallTicks clock steps only, and the clock runs for LiveTicks steps.
CallTicks == 1
LiveTicks == 13

Modes == 0 .. (NO_POWER_MODES - 1)

\* The tasks that call into the manager: two owner tasks and the timer
\* service task that runs pwrdwnmgrTimer.
Tasks == {"a", "b", "tmr"}
\* A task outside the manager's functions.  pc is the place in the function,
\* op/ref/arg the call, canSleepForMs and cannotSleep the locals of
\* checkCanSleep, inCb whether the task is inside the callback.
IdleTask ==
    [pc |-> "idle", op |-> "none", ref |-> 0, arg |-> 0,
     canSleepForMs |-> -1, cannotSleep |-> FALSE, inCb |-> FALSE]

--------------------------------------------------------------------------
\* C integer arithmetic.

\* a / b for b > 0, truncating toward zero.
CDiv(a, b) == IF a >= 0 THEN a \div b ELSE -((-a) \div b)
\* a % b for b > 0, sign of the dividend.
CMod(a, b) == a - b * CDiv(a, b)

\* a < b on uint64_t, on residues in (-2^63, 2^63).
U64Less(a, b) == IF (a >= 0) = (b >= 0) THEN a < b ELSE a >= 0

\* getCurrentTimeMs(): tv.tv_sec*1000 + tv.tv_usec/1000
getCurrentTimeMs(tv) == tv.tv_sec * 1000 + CDiv(tv.tv_usec, 1000)

\* gettimeofday(&p->sleepUntil); tv_sec += ms/1000; tv_usec += (ms%1000)*1000;
\* if (tv_usec > 1000000) { tv_usec -= 1000000; tv_sec++; }
AddMs(tv, ms) ==
    LET sec  == tv.tv_sec + CDiv(ms, 1000)
        usec == tv.tv_usec + CMod(ms, 1000) * 1000
    IN  IF usec > 1000000
        THEN [tv_sec |-> sec + 1, tv_usec |-> usec - 1000000]
        ELSE [tv_sec |-> sec, tv_usec |-> usec]

\* mssleep: the delay between sleepUntil and now, as checkCanSleep computes it.
MsSleep(sleepUntil, now) ==
    (sleepUntil.tv_sec - now.tv_sec) * 1000
        + CDiv(sleepUntil.tv_usec - now.tv_usec, 1000)

--------------------------------------------------------------------------
\* The registry.

HasRef(items, ref) == \E k \in 1 .. Len(items) : items[k].ref = ref

\* Index of the first item with this ref (the one findItem returns).
IndexOf(items, ref) == CHOOSE k \in 1 .. Len(items) :
    /\ items[k].ref = ref
    /\ \A j \in 1 .. (k - 1) : items[j].ref # ref

\* malloc + memset(0) + p->ref = ref
NewItem(ref) ==
    [ref |-> ref, state |-> 0, sleepUntil |-> [tv_sec |-> 0, tv_usec |-> 0]]

\* findItem: the list after the lookup; a missing ref is added at the head.
findItem(items, ref) ==
    IF HasRef(items, ref) THEN items ELSE <<NewItem(ref)>> \o items

--------------------------------------------------------------------------
\* checkCanSleep, first loop: the scan of powerItems.

\* HoldLasts with the hold dropped one second early.
HoldLasts_early(mssleep) == mssleep > 1000

\* HoldLasts with a hold that never runs out.
HoldLasts_forever(mssleep) == TRUE

\* if (mssleep>0): the hold of an ST_ACTIVE item still lasts.
HoldLasts(mssleep) == mssleep > 0

\* TooShort with only an elapsed window counted as too short.
TooShort_elapsed(mssleep) == mssleep <= 0

\* TooShort with no window ever counted as too short.
TooShort_never(mssleep) == FALSE

\* if (mssleep<2000): the sleep request of an ST_CANSLEEP_UNTIL item is too short.
TooShort(mssleep) == mssleep < 2000

\* LowerBound with the comparison turned around (keeps the longest window).
LowerBound_longest(canSleepForMs, mssleep) ==
    IF canSleepForMs = -1 \/ mssleep > canSleepForMs THEN mssleep ELSE canSleepForMs

\* if (canSleepForMs==-1 || mssleep<canSleepForMs) canSleepForMs=mssleep;
LowerBound(canSleepForMs, mssleep) ==
    IF canSleepForMs = -1 \/ mssleep < canSleepForMs THEN mssleep ELSE canSleepForMs

\* The body of the while loop for one item: the item as the loop leaves it and
\* the two locals canSleepForMs and cannotSleep.
ScanItem(it, now, canSleepForMs, cannotSleep) ==
    LET mssleep == MsSleep(it.sleepUntil, now)
    IN  IF it.state = ST_ACTIVE
        THEN IF HoldLasts(mssleep)
             THEN [item |-> it, canSleepForMs |-> canSleepForMs, cannotSleep |-> TRUE]
             ELSE [item |-> [it EXCEPT !.state = ST_CANSLEEP],
                   canSleepForMs |-> canSleepForMs, cannotSleep |-> cannotSleep]
        ELSE IF it.state = ST_CANSLEEP_UNTIL
        THEN IF TooShort(mssleep)
             THEN [item |-> [it EXCEPT !.state = ST_ACTIVE],
                   canSleepForMs |-> canSleepForMs, cannotSleep |-> TRUE]
             ELSE [item |-> it, canSleepForMs |-> LowerBound(canSleepForMs, mssleep),
                   cannotSleep |-> cannotSleep]
        ELSE [item |-> it, canSleepForMs |-> canSleepForMs, cannotSleep |-> cannotSleep]

\* while (i!=NULL) { ...; i=i->next; } from item k on; acc holds the items
\* already visited and the locals.
RECURSIVE ScanList(_, _, _, _)
ScanList(items, k, now, acc) ==
    IF k > Len(items) THEN acc
    ELSE LET r == ScanItem(items[k], now, acc.canSleepForMs, acc.cannotSleep)
         IN  ScanList(items, k + 1, now,
                      [items |-> Append(acc.items, r.item),
                       canSleepForMs |-> r.canSleepForMs,
                       cannotSleep |-> r.cannotSleep])

\* Scan with canSleepForMs starting at 0 instead of -1.
Scan_zero(items, now) ==
    LET r == ScanList(items, 1, now,
                      [items |-> <<>>, canSleepForMs |-> -1, cannotSleep |-> FALSE])
    IN  IF r.canSleepForMs = -1 THEN [r EXCEPT !.canSleepForMs = 0] ELSE r

\* int canSleepForMs=-1; int cannotSleep=0; and the loop.
Scan(items, now) ==
    ScanList(items, 1, now, [items |-> <<>>, canSleepForMs |-> -1, cannotSleep |-> FALSE])

--------------------------------------------------------------------------
\* checkCanSleep, the mode loops and the decision.

\* doSleep: if (pdCb) pdCb(sleepMs, pdCbArg, nextMode); calls is the list of
\* callback invocations of the running handler.
doSleep(calls, sleepMs, nextMode) ==
    IF pdCb THEN Append(calls, [sleepMs |-> sleepMs, nextMode |-> nextMode]) ELSE calls

\* WakeDue with the comparison turned around.
WakeDue_after(ts, nowMs) == ts # 0 /\ U64Less(nowMs, ts)

\* savedWakeTimestamp[i]!=0 && savedWakeTimestamp[i]<getCurrentTimeMs()
WakeDue(ts, nowMs) == ts # 0 /\ U64Less(ts, nowMs)

\* for (int i=powerMode+1; i<NO_POWER_MODES; i++) if (due) { doSleep(0, i); cannotSleep=1; }
RECURSIVE HigherModes(_, _, _, _)
HigherModes(i, wake, nowMs, acc) ==
    IF i >= NO_POWER_MODES THEN acc
    ELSE HigherModes(i + 1, wake, nowMs,
            IF WakeDue(wake[i], nowMs)
            THEN [calls |-> doSleep(acc.calls, 0, i), cannotSleep |-> TRUE]
            ELSE acc)

\* savedWakeTimestamp[i]!=0 && savedWakeTimestamp[i]<savedWakeTimestamp[nearestMode]
Nearer(wake, i, nearestMode) == wake[i] # 0 /\ U64Less(wake[i], wake[nearestMode])

\* int nearestMode=0; for (int i=0; i<NO_POWER_MODES; i++) if (nearer) nearestMode=i;
RECURSIVE NearestFrom(_, _, _)
NearestFrom(i, wake, nearestMode) ==
    IF i >= NO_POWER_MODES THEN nearestMode
    ELSE NearestFrom(i + 1, wake, IF Nearer(wake, i, nearestMode) THEN i ELSE nearestMode)

NearestMode(wake) == NearestFrom(0, wake, 0)

\* WakeWrite without the sleep time added.
WakeWrite_now(wake, mode, nowMs, canSleepForMs) ==
    [wake EXCEPT ![mode] = nowMs]

\* WakeWrite into slot 0 instead of the slot of the current mode.
WakeWrite_slot0(wake, mode, nowMs, canSleepForMs) ==
    [wake EXCEPT ![0] = nowMs + canSleepForMs]

\* savedWakeTimestamp[powerMode]=getCurrentTimeMs()+canSleepForMs;
WakeWrite(wake, mode, nowMs, canSleepForMs) ==
    [wake EXCEPT ![mode] = nowMs + canSleepForMs]

\* if (nearestMode==powerMode) doSleep(canSleepForMs, nearestMode);
\* else doSleep(savedWakeTimestamp[nearestMode]-getCurrentTimeMs(), nearestMode);
SleepCall(calls, wake, mode, nearestMode, nowMs, canSleepForMs) ==
    IF nearestMode = mode
    THEN doSleep(calls, canSleepForMs, nearestMode)
    ELSE doSleep(calls, wake[nearestMode] - nowMs, nearestMode)

\* xTimerReset(tmr, portMAX_DELAY): the timer expires one period from now.
xTimerReset(nowMs) == nowMs + TIMER_PERIOD_MS

\* checkCanSleep(): everything the pass computes and leaves behind.
checkCanSleep(items, wake, mode, now) ==
    LET nowMs   == getCurrentTimeMs(now)
        scan    == Scan(items, now)
        hi      == HigherModes(mode + 1, wake, nowMs,
                               [calls |-> <<>>, cannotSleep |-> scan.cannotSleep])
        sleeps  == ~hi.cannotSleep
        wake2   == IF sleeps THEN WakeWrite(wake, mode, nowMs, scan.canSleepForMs) ELSE wake
        nearest == IF sleeps THEN NearestMode(wake2) ELSE -1
        calls   == IF sleeps
                   THEN SleepCall(hi.calls, wake2, mode, nearest, nowMs, scan.canSleepForMs)
                   ELSE hi.calls
    IN  [items |-> scan.items, wake |-> wake2, calls |-> calls,
         canSleepForMs |-> scan.canSleepForMs, scanBlocked |-> scan.cannotSleep,
         cannotSleep |-> hi.cannotSleep, nearestMode |-> nearest,
         tmr |-> xTimerReset(nowMs)]

--------------------------------------------------------------------------
\* The handlers.

\* p->state=...; p->sleepUntil=... on the item findItem returned.
SetItem(items, ref, state, sleepUntil) ==
    LET its == findItem(items, ref)
    IN  [its EXCEPT ![IndexOf(its, ref)] =
            [ref |-> ref, state |-> state, sleepUntil |-> sleepUntil]]

\* p->state=ST_CANSLEEP on the item findItem returned; sleepUntil is left alone.
SetState(items, ref, state) ==
    LET its == findItem(items, ref)
    IN  [its EXCEPT ![IndexOf(its, ref)].state = state]

\* History: the last call each owner made ("none", "hold", "permit"), after
\* the handler op of owner ref.
LastCalls(op, ref) ==
    IF op = "hold" THEN [pass.last EXCEPT ![ref] = "hold"]
    ELSE IF op \in {"canSleep", "canSleepFor"} THEN [pass.last EXCEPT ![ref] = "permit"]
    ELSE pass.last

\* The history record of a handler that ran no pass.
NoPass(op, ref, arg) ==
    [op |-> op, ref |-> ref, arg |-> arg, ran |-> FALSE, now |-> clock,
     pre |-> powerItems, preWake |-> savedWakeTimestamp, calls |-> <<>>,
     canSleepForMs |-> -1, scanBlocked |-> FALSE, cannotSleep |-> FALSE,
     nearestMode |-> -1, last |-> LastCalls(op, ref), lastPassMs |-> pass.lastPassMs]

\* The history record of a handler that ran checkCanSleep on items, result r.
RanPass(op, ref, arg, items, r) ==
    [op |-> op, ref |-> ref, arg |-> arg, ran |-> TRUE, now |-> clock,
     pre |-> items, preWake |-> savedWakeTimestamp, calls |-> r.calls,
     canSleepForMs |-> r.canSleepForMs, scanBlocked |-> r.scanBlocked,
     cannotSleep |-> r.cannotSleep, nearestMode |-> r.nearestMode,
     last |-> LastCalls(op, ref), lastPassMs |-> getCurrentTimeMs(clock)]

\* Leaves without the xTimerReset at the end of the pass.
Leaves_norearm(r) ==
    /\ powerItems' = r.items
    /\ savedWakeTimestamp' = r.wake
    /\ UNCHANGED <<powerMode, clock, tmr, mux, thr>>

\* What a handler leaves behind after the pass r.
Leaves(r) ==
    /\ powerItems' = r.items
    /\ savedWakeTimestamp' = r.wake
    /\ tmr' = r.tmr
    /\ UNCHANGED <<powerMode, clock, mux, thr>>

\* _powerHold with the checkCanSleep() call of the two permit functions.
powerHold_pass(ref, holdTimeMs) ==
    LET items == SetItem(powerItems, ref, ST_ACTIVE, AddMs(clock, holdTimeMs))
        r     == checkCanSleep(items, savedWakeTimestamp, powerMode, clock)
    IN  /\ pass' = RanPass("hold", ref, holdTimeMs, items, r)
        /\ Leaves(r)

\* _powerHold(ref, holdTimeMs)
powerHold(ref, holdTimeMs) ==
    /\ powerItems' = SetItem(powerItems, ref, ST_ACTIVE, AddMs(clock, holdTimeMs))
    /\ pass' = [NoPass("hold", ref, holdTimeMs) EXCEPT !.pre = powerItems']
    /\ UNCHANGED <<savedWakeTimestamp, powerMode, clock, tmr, mux, thr>>

\* The record update of _powerCanSleepFor.
CanSleepForItems(items, ref, delayMs) ==
    SetItem(items, ref, ST_CANSLEEP_UNTIL, AddMs(clock, delayMs))

\* _powerCanSleepFor(ref, delayMs)
powerCanSleepFor(ref, delayMs) ==
    LET items == CanSleepForItems(powerItems, ref, delayMs)
        r     == checkCanSleep(items, savedWakeTimestamp, powerMode, clock)
    IN  /\ pass' = RanPass("canSleepFor", ref, delayMs, items, r)
        /\ Leaves(r)

\* CanSleepItems with the state of _powerCanSleepFor.
CanSleepItems_until(items, ref) == SetState(items, ref, ST_CANSLEEP_UNTIL)

\* The record update of _powerCanSleep.
CanSleepItems(items, ref) == SetState(items, ref, ST_CANSLEEP)

\* _powerCanSleep(ref)
powerCanSleep(ref) ==
    LET items == CanSleepItems(powerItems, ref)
        r     == checkCanSleep(items, savedWakeTimestamp, powerMode, clock)
    IN  /\ pass' = RanPass("canSleep", ref, 0, items, r)
        /\ Leaves(r)

\* pwrdwnmgrTimer: the periodic timer expired.
pwrdwnmgrTimer ==
    /\ getCurrentTimeMs(clock) >= tmr
    /\ LET r == checkCanSleep(powerItems, savedWakeTimestamp, powerMode, clock)
       IN  /\ pass' = RanPass("timer", 0, 0, powerItems, r)
           /\ Leaves(r)

\* The wall clock after ms more milliseconds (tv_usec stays below 1000000).
ClockAfter(tv, ms) ==
    LET usec == tv.tv_usec + ms * 1000
    IN  [tv_sec |-> tv.tv_sec + usec \div 1000000, tv_usec |-> usec % 1000000]

\* Time passes; the timer task runs pwrdwnmgrTimer when the period is over, so
\* the clock does not pass the expiry time before the timer handler ran.
Tick(ms) ==
    /\ getCurrentTimeMs(clock) + ms <= tmr
    /\ getCurrentTimeMs(clock) + ms <= getCurrentTimeMs(BootTime) + MaxTicks * ms
    /\ clock' = ClockAfter(clock, ms)
    /\ pass' = [NoPass("tick", 0, ms) EXCEPT !.now = clock']
    /\ UNCHANGED <<powerItems, savedWakeTimestamp, powerMode, tmr, mux, thr>>

\* powerDownMgrInit(cb, arg, mode, dbg): the list is empty, the timer is
\* started, the mode is the caller's; the wake table is what the RTC memory
\* kept from earlier boots.
Init ==
    /\ powerItems = <<>>
    /\ savedWakeTimestamp \in { [m \in Modes |-> t[m + 1]] : t \in WakeTables }
    /\ powerMode \in Modes
    /\ clock = BootTime
    /\ tmr = xTimerReset(getCurrentTimeMs(BootTime))
    /\ pass = [op |-> "init", ref |-> 0, arg |-> 0, ran |-> FALSE, now |-> BootTime,
               pre |-> <<>>, preWake |-> savedWakeTimestamp, calls |-> <<>>,
               canSleepForMs |-> -1, scanBlocked |-> FALSE, cannotSleep |-> FALSE,
               nearestMode |-> -1, last |-> [r \in Refs |-> "none"],
               lastPassMs |-> getCurrentTimeMs(BootTime)]
    /\ mux = "free"
    /\ thr = [t \in Tasks |-> IdleTask]

Next ==
    \/ \E ref \in Refs, ms \in HoldTimes : powerHold(ref, ms)
    \/ \E ref \in Refs, ms \in Delays : powerCanSleepFor(ref, ms)
    \/ \E ref \in Refs : powerCanSleep(ref)
    \/ pwrdwnmgrTimer
    \/ \E ms \in ElapseMs : Tick(ms)

Spec == Init /\ [][Next]_vars

--------------------------------------------------------------------------
\* The long run.  Owners stop calling _powerHold and _powerCanSleepFor after
\* the first CallTicks clock steps; _powerCanSleep may be called at any time.
\* Time keeps passing and the timer task runs pwrdwnmgrTimer whenever the
\* timer has expired.

StillCalling ==
    getCurrentTimeMs(clock) <= getCurrentTimeMs(BootTime) + CallTicks * 1000

LiveTick(ms) ==
    /\ getCurrentTimeMs(clock) + ms <= tmr
    /\ getCurrentTimeMs(clock) + ms <= getCurrentTimeMs(BootTime) + LiveTicks * ms
    /\ clock' = ClockAfter(clock, ms)
    /\ pass' = [NoPass("tick", 0, ms) EXCEPT !.now = clock']
    /\ UNCHANGED <<powerItems, savedWakeTimestamp, powerMode, tmr, mux, thr>>

LiveNext ==
    \/ \E ref \in Refs, ms \in HoldTimes : StillCalling /\ powerHold(ref, ms)
    \/ \E ref \in Refs, ms \in Delays : StillCalling /\ powerCanSleepFor(ref, ms)
    \/ \E ref \in Refs : powerCanSleep(ref)
    \/ pwrdwnmgrTimer
    \/ \E ms \in ElapseMs : LiveTick(ms)

\* The long run starts in power mode 0 with a wake timestamp stored for a
\* deeper mode.
LiveInit ==
    /\ Init
    /\ powerMode = 0
    /\ savedWakeTimestamp[1] = 1000

LiveSpec ==
    /\ LiveInit
    /\ [][LiveNext]_vars
    /\ WF_vars(\E ms \in ElapseMs : LiveTick(ms))
    /\ WF_vars(pwrdwnmgrTimer)

--------------------------------------------------------------------------
\* The tasks.  The handlers above, cut at the calls they make: a task enters
\* a function, takes mux, updates its record, runs the loops of checkCanSleep
\* one after the other, resets the timer and gives mux back.  Tasks take
\* turns between these steps in any order.  The callback is the caller's
\* code: it returns, or it calls back into the manager.

ThreadTicks == 1

OwnerTasks == Tasks \ {"tmr"}

\* Every owner task calls with a ref of its own.
OwnerRef == [t \in OwnerTasks |-> IF t = "a" THEN 1 ELSE 2]

\* The calls the owner task t makes.
OwnerCalls(t) ==
    { [op |-> "hold", ref |-> OwnerRef[t], arg |-> 1000],
      [op |-> "canSleepFor", ref |-> OwnerRef[t], arg |-> 1500],
      [op |-> "canSleep", ref |-> OwnerRef[t], arg |-> 0] }

\* What the callback does: return, or call one of the manager's functions.
Callbacks ==
    { [op |-> "returns", ref |-> 0, arg |-> 0],
      [op |-> "hold", ref |-> 1, arg |-> 1000],
      [op |-> "canSleepFor", ref |-> 1, arg |-> 1500],
      [op |-> "canSleep", ref |-> 1, arg |-> 0] }

\* xSemaphoreTake on a mutex that lets its holder in again.
MuxFree_recursive(t) == mux \in {"free", t}

\* xSemaphoreTake that never waits.
MuxFree_always(t) == TRUE

\* xSemaphoreTake(mux, portMAX_DELAY) returns once no task holds mux; mux is
\* created by xSemaphoreCreateMutex, which is not recursive.
MuxFree(t) == mux = "free"

\* Task t entered the function of call c: its next statement is the take.
Entered(t, c, inCb) ==
    [thr EXCEPT ![t] = [@ EXCEPT !.pc = "take", !.op = c.op, !.ref = c.ref,
                                 !.arg = c.arg, !.inCb = inCb]]

\* An owner task calls _powerHold, _powerCanSleepFor or _powerCanSleep.
tCall(t, c) ==
    /\ thr[t].pc = "idle"
    /\ thr' = Entered(t, c, FALSE)
    /\ UNCHANGED <<powerItems, savedWakeTimestamp, powerMode, clock, tmr, pass, mux>>

\* The timer expired: the timer service task calls pwrdwnmgrTimer.
tTimerFires ==
    /\ thr["tmr"].pc = "idle"
    /\ getCurrentTimeMs(clock) >= tmr
    /\ thr' = Entered("tmr", [op |-> "timer", ref |-> 0, arg |-> 0], FALSE)
    /\ UNCHANGED <<powerItems, savedWakeTimestamp, powerMode, clock, tmr, pass, mux>>

\* xSemaphoreTake(mux, portMAX_DELAY);
tTake(t) ==
    /\ thr[t].pc = "take"
    /\ MuxFree(t)
    /\ mux' = t
    /\ thr' = [thr EXCEPT ![t].pc = IF thr[t].op = "timer" THEN "scan" ELSE "update"]
    /\ UNCHANGED <<powerItems, savedWakeTimestamp, powerMode, clock, tmr, pass>>

\* findItem and the assignments to the record, up to the call of
\* checkCanSleep (_powerHold: up to xSemaphoreGive).
tUpdate(t) ==
    /\ thr[t].pc = "update"
    /\ LET c == thr[t]
       IN  /\ powerItems' =
                 IF c.op = "hold"
                 THEN SetItem(powerItems, c.ref, ST_ACTIVE, AddMs(clock, c.arg))
                 ELSE IF c.op = "canSleepFor"
                 THEN CanSleepForItems(powerItems, c.ref, c.arg)
                 ELSE CanSleepItems(powerItems, c.ref)
           /\ pass' = [NoPass(c.op, c.ref, c.arg) EXCEPT !.pre = powerItems']
           /\ thr' = [thr EXCEPT ![t].pc = IF c.op = "hold" THEN "give" ELSE "scan"]
    /\ UNCHANGED <<savedWakeTimestamp, powerMode, clock, tmr, mux>>

\* tScan that leaves the records as they are.
tScan_skip(t) ==
    /\ thr[t].pc = "scan"
    /\ LET s == Scan(powerItems, clock)
       IN  /\ powerItems' = powerItems
           /\ thr' = [thr EXCEPT ![t].pc = "modes",
                                 ![t].canSleepForMs = s.canSleepForMs,
                                 ![t].cannotSleep = s.cannotSleep]
           /\ pass' = [pass EXCEPT !.op = thr[t].op, !.ref = thr[t].ref,
                                   !.arg = thr[t].arg, !.ran = TRUE, !.now = clock,
                                   !.pre = powerItems, !.preWake = savedWakeTimestamp,
                                   !.calls = <<>>, !.canSleepForMs = s.canSleepForMs,
                                   !.scanBlocked = s.cannotSleep,
                                   !.cannotSleep = s.cannotSleep, !.nearestMode = -1]
    /\ UNCHANGED <<savedWakeTimestamp, powerMode, clock, tmr, mux>>

\* checkCanSleep, the while loop over powerItems.
tScan(t) ==
    /\ thr[t].pc = "scan"
    /\ LET s == Scan(powerItems, clock)
       IN  /\ powerItems' = s.items
           /\ thr' = [thr EXCEPT ![t].pc = "modes",
                                 ![t].canSleepForMs = s.canSleepForMs,
                                 ![t].cannotSleep = s.cannotSleep]
           /\ pass' = [pass EXCEPT !.op = thr[t].op, !.ref = thr[t].ref,
                                   !.arg = thr[t].arg, !.ran = TRUE, !.now = clock,
                                   !.pre = powerItems, !.preWake = savedWakeTimestamp,
                                   !.calls = <<>>, !.canSleepForMs = s.canSleepForMs,
                                   !.scanBlocked = s.cannotSleep,
                                   !.cannotSleep = s.cannotSleep, !.nearestMode = -1]
    /\ UNCHANGED <<savedWakeTimestamp, powerMode, clock, tmr, mux>>

\* checkCanSleep, the loop over the modes above powerMode.  A callback cb
\* that calls back into the manager does so in the first doSleep of the
\* loop, before cannotSleep=1.
tModes(t, cb) ==
    /\ thr[t].pc = "modes"
    /\ LET hi == HigherModes(powerMode + 1, savedWakeTimestamp, getCurrentTimeMs(clock),
                             [calls |-> <<>>, cannotSleep |-> thr[t].cannotSleep])
       IN  IF cb.op = "returns"
           THEN /\ thr' = [thr EXCEPT ![t].pc = "decide", ![t].cannotSleep = hi.cannotSleep]
                /\ pass' = [pass EXCEPT !.calls = hi.calls, !.cannotSleep = hi.cannotSleep]
           ELSE /\ hi.calls # <<>>
                /\ thr' = Entered(t, cb, TRUE)
                /\ pass' = [pass EXCEPT !.calls = <<hi.calls[1]>>]
    /\ UNCHANGED <<powerItems, savedWakeTimestamp, powerMode, clock, tmr, mux>>

\* checkCanSleep, if (!cannotSleep) { ... }: the write of the wake table, the
\* search for the nearest mode and the callback, which returns or calls back
\* into the manager.
tDecide(t, cb) ==
    /\ thr[t].pc = "decide"
    /\ IF thr[t].cannotSleep
       THEN /\ cb.op = "returns"
            /\ thr' = [thr EXCEPT ![t].pc = "reset"]
            /\ UNCHANGED <<savedWakeTimestamp, pass>>
       ELSE LET nowMs   == getCurrentTimeMs(clock)
                wake2   == WakeWrite(savedWakeTimestamp, powerMode, nowMs,
                                     thr[t].canSleepForMs)
                nearest == NearestMode(wake2)
            IN  /\ savedWakeTimestamp' = wake2
                /\ pass' = [pass EXCEPT
                               !.nearestMode = nearest,
                               !.calls = SleepCall(pass.calls, wake2, powerMode, nearest,
                                                   nowMs, thr[t].canSleepForMs)]
                /\ thr' = IF cb.op = "returns"
                          THEN [thr EXCEPT ![t].pc = "reset"]
                          ELSE Entered(t, cb, TRUE)
    /\ UNCHANGED <<powerItems, powerMode, clock, tmr, mux>>

\* xTimerReset(tmr, portMAX_DELAY); and the return from checkCanSleep.
tReset(t) ==
    /\ thr[t].pc = "reset"
    /\ tmr' = xTimerReset(getCurrentTimeMs(clock))
    /\ pass' = [pass EXCEPT !.lastPassMs = getCurrentTimeMs(clock)]
    /\ thr' = [thr EXCEPT ![t].pc = "give"]
    /\ UNCHANGED <<powerItems, savedWakeTimestamp, powerMode, clock, mux>>

\* xSemaphoreGive(mux); and the return to the caller.
tGive(t) ==
    /\ thr[t].pc = "give"
    /\ mux' = "free"
    /\ thr' = [thr EXCEPT ![t] = IdleTask]
    /\ UNCHANGED <<powerItems, savedWakeTimestamp, powerMode, clock, tmr, pass>>

\* One timer period passes while no task is inside the manager.
ThreadTick ==
    /\ \A t \in Tasks : thr[t].pc = "idle"
    /\ getCurrentTimeMs(clock) + TIMER_PERIOD_MS <= tmr
    /\ getCurrentTimeMs(clock) + TIMER_PERIOD_MS
          <= getCurrentTimeMs(BootTime) + ThreadTicks * TIMER_PERIOD_MS
    /\ clock' = ClockAfter(clock, TIMER_PERIOD_MS)
    /\ pass' = [NoPass("tick", 0, TIMER_PERIOD_MS) EXCEPT !.now = clock']
    /\ UNCHANGED <<powerItems, savedWakeTimestamp, powerMode, tmr, mux, thr>>

ThreadNext ==
    \/ \E t \in OwnerTasks : \E c \in OwnerCalls(t) : tCall(t, c)
    \/ tTimerFires
    \/ \E t \in Tasks : tTake(t)
    \/ \E t \in Tasks : tUpdate(t)
    \/ \E t \in Tasks : tScan(t)
    \/ \E t \in Tasks, cb \in Callbacks : tModes(t, cb)
    \/ \E t \in Tasks, cb \in Callbacks : tDecide(t, cb)
    \/ \E t \in Tasks : tReset(t)
    \/ \E t \in Tasks : tGive(t)
    \/ ThreadTick

\* The tasks start after powerDownMgrInit, with wake timestamps stored for
\* the two deeper modes by earlier boots.
ThreadInit ==
    /\ Init
    /\ savedWakeTimestamp[1] = 1000

ThreadSpec == ThreadInit /\ [][ThreadNext]_vars

--------------------------------------------------------------------------
\* The scan on its own, with the clock read once per item as the loop does
\* (gettimeofday is called inside the while loop).  Scan above is the scan
\* during which the clock does not move.

\* Time between two reads of the clock in one scan, in ms.
ReadSteps == {0, 1}
\* Deadlines of the records, in ms after the first read of the clock.
ScanWindows == {0, 1, 2000, 2001, 3000}

ScanRecords ==
    { [ref |-> r, state |-> st, sleepUntil |-> ClockAfter(BootTime, d)] :
        r \in Refs, st \in {ST_ACTIVE, ST_CANSLEEP, ST_CANSLEEP_UNTIL}, d \in ScanWindows }

\* The registries with one record for every owner, in either order.
ScanLists == { l \in ScanRecords \X ScanRecords : l[1].ref # l[2].ref }

\* What gettimeofday returns in the k-th turn of the loop.
ScanReads(now, n, ms) == [k \in 1 .. n |-> ClockAfter(now, (k - 1) * ms)]

\* while (i!=NULL) { gettimeofday(&now, NULL); ...; i=i->next; } from item k on.
RECURSIVE ScanListAt(_, _, _, _)
ScanListAt(items, k, reads, acc) ==
    IF k > Len(items) THEN acc
    ELSE LET r == ScanItem(items[k], reads[k], acc.canSleepForMs, acc.cannotSleep)
         IN  ScanListAt(items, k + 1, reads,
                        [items |-> Append(acc.items, r.item),
                         canSleepForMs |-> r.canSleepForMs,
                         cannotSleep |-> r.cannotSleep])

ScanTimed(items, reads) ==
    ScanListAt(items, 1, reads, [items |-> <<>>, canSleepForMs |-> -1, cannotSleep |-> FALSE])

ScanInit ==
    /\ powerItems \in ScanLists
    /\ savedWakeTimestamp = [m \in Modes |-> 0]
    /\ powerMode = 0
    /\ clock = BootTime
    /\ tmr = xTimerReset(getCurrentTimeMs(BootTime))
    /\ pass = [op |-> "init", ref |-> 0, arg |-> 0, ran |-> FALSE, now |-> BootTime,
               pre |-> <<>>, preWake |-> savedWakeTimestamp, calls |-> <<>>,
               canSleepForMs |-> -1, scanBlocked |-> FALSE, cannotSleep |-> FALSE,
               nearestMode |-> -1, last |-> [r \in Refs |-> "none"],
               lastPassMs |-> getCurrentTimeMs(BootTime)]
    /\ mux = "free"
    /\ thr = [t \in Tasks |-> IdleTask]

\* The first loop of checkCanSleep on the registry, the clock moving by ms
\* between two reads.
scanRegistry(ms) ==
    /\ pass.op = "init"
    /\ LET r == ScanTimed(powerItems, ScanReads(clock, Len(powerItems), ms))
       IN  /\ powerItems' = r.items
           /\ pass' = [pass EXCEPT !.op = "scan", !.arg = ms, !.ran = TRUE,
                                   !.pre = powerItems,
                                   !.canSleepForMs = r.canSleepForMs,
                                   !.scanBlocked = r.cannotSleep,
                                   !.cannotSleep = r.cannotSleep]
    /\ UNCHANGED <<savedWakeTimestamp, powerMode, clock, tmr, mux, thr>>

ScanNext == \E ms \in ReadSteps : scanRegistry(ms)

ScanSpec == ScanInit /\ [][ScanNext]_vars

--------------------------------------------------------------------------
\* Vocabulary of the properties.  The remaining time of a record is taken
\* from the exact difference of the two timevals in microseconds, not from
\* the mssleep arithmetic of the scan.

PassNowMs == getCurrentTimeMs(pass.now)

RemainingUs(it, now) ==
    (it.sleepUntil.tv_sec * 1000000 + it.sleepUntil.tv_usec)
        - (now.tv_sec * 1000000 + now.tv_usec)

\* The pass took the branch "if (!cannotSleep)".
Authorized == pass.ran /\ ~pass.cannotSleep

\* The pass neither wrote the wake table nor made the sleep decision: every
\* callback it made is an immediate switch (0, mode above the current one).
NoSleepDecision ==
    /\ pass.cannotSleep
    /\ savedWakeTimestamp = pass.preWake
    /\ pass.nearestMode = -1
    /\ \A c \in 1 .. Len(pass.calls) :
          pass.calls[c].sleepMs = 0 /\ pass.calls[c].nextMode > powerMode

PreItems == { pass.pre[k] : k \in 1 .. Len(pass.pre) }

\* Remaining times (us) of the ST_CANSLEEP_UNTIL records with >= 2000 ms left.
SleepWindows ==
    { RemainingUs(it, pass.now) :
        it \in { x \in PreItems : /\ x.state = ST_CANSLEEP_UNTIL
                                  /\ RemainingUs(x, pass.now) >= 2000000 } }

\* A record that blocks sleep in a scan at time now.
Blocks(it, now) ==
    \/ it.state = ST_ACTIVE /\ RemainingUs(it, now) > 0
    \/ it.state = ST_CANSLEEP_UNTIL /\ RemainingUs(it, now) < 2000000

OtherSlotsZero == \A m \in Modes \ {powerMode} : pass.preWake[m] = 0

--------------------------------------------------------------------------
\* C1: a pass that scans an ST_ACTIVE record whose deadline is still ahead
\* (deadline - now > 0) does not authorize sleep: it does not write
\* savedWakeTimestamp[powerMode] and makes no sleep-decision callback,
\* whatever the other records are.
C1_ActiveHoldBlocksSleep ==
    (pass.ran /\ \E it \in PreItems :
                    it.state = ST_ACTIVE /\ RemainingUs(it, pass.now) > 0)
        => NoSleepDecision

\* A permit call of one owner ran a pass while another owner's hold lasted.
C1_Witness ==
    /\ pass.ran /\ pass.op = "canSleep"
    /\ Len(pass.pre) = 2
    /\ \E it \in PreItems :
          it.ref # pass.ref /\ it.state = ST_ACTIVE /\ RemainingUs(it, pass.now) > 0
    /\ pass.cannotSleep

\* C2: every record that a pass scans in ST_CANSLEEP_UNTIL with less than
\* 2000 ms left is ST_ACTIVE after the pass, deadline unchanged, and the pass
\* does not authorize sleep; in particular _powerCanSleepFor(ref, d) with
\* d < 2000 leaves the owner ST_ACTIVE and sleep blocked.
C2_ShortWindowMadeActive ==
    pass.ran =>
        /\ \A k \in 1 .. Len(pass.pre) :
              (/\ pass.pre[k].state = ST_CANSLEEP_UNTIL
               /\ RemainingUs(pass.pre[k], pass.now) < 2000000)
                  => /\ powerItems[k] = [pass.pre[k] EXCEPT !.state = ST_ACTIVE]
                     /\ NoSleepDecision
        /\ (pass.op = "canSleepFor" /\ pass.arg < 2000)
              => /\ powerItems[IndexOf(powerItems, pass.ref)].state = ST_ACTIVE
                 /\ RemainingUs(powerItems[IndexOf(powerItems, pass.ref)], pass.now)
                        = pass.arg * 1000
                 /\ NoSleepDecision

\* _powerCanSleepFor(ref, 1500) as the only owner: made active, sleep blocked.
C2_Witness ==
    /\ pass.op = "canSleepFor" /\ pass.arg = 1500
    /\ Len(powerItems) = 1
    /\ powerItems[1].state = ST_ACTIVE
    /\ pass.cannotSleep

\* C3: in a pass in which no record blocks sleep and some ST_CANSLEEP_UNTIL
\* record has at least 2000 ms left, canSleepForMs is the minimum of
\* (deadline - now) over exactly those records.
C3_BoundIsMinimumWindow ==
    (pass.ran /\ ~pass.scanBlocked /\ SleepWindows # {})
        => /\ pass.canSleepForMs * 1000 \in SleepWindows
           /\ \A w \in SleepWindows : pass.canSleepForMs * 1000 <= w

\* Two windows of different lengths next to an expired hold or a CanSleep owner.
C3_Witness ==
    /\ pass.ran /\ ~pass.scanBlocked
    /\ Cardinality(SleepWindows) = 2
    /\ Len(pass.calls) = 1

\* C4: after a pass that authorizes sleep, savedWakeTimestamp[powerMode] is
\* nonzero and equals now + canSleepForMs, also when no owner gave a bound.
C4_WakeTimestampWritten ==
    Authorized =>
        /\ savedWakeTimestamp[powerMode] # 0
        /\ savedWakeTimestamp[powerMode] = PassNowMs + pass.canSleepForMs

\* An authorizing pass in which no owner gave a bound: the slot holds now - 1.
C4_Witness ==
    /\ Authorized
    /\ Len(pass.pre) > 0
    /\ SleepWindows = {}
    /\ savedWakeTimestamp[powerMode] = PassNowMs - 1

\* C5: in a pass that authorizes sleep the mode handed to the callback is the
\* mode with the smallest nonzero wake timestamp, the lowest index among equal
\* ones; a mode whose slot is zero is never chosen.
C5_NearestIsSmallestNonzero ==
    Authorized =>
        /\ savedWakeTimestamp[pass.nearestMode] # 0
        /\ \A m \in Modes :
              savedWakeTimestamp[m] # 0
                  => /\ ~U64Less(savedWakeTimestamp[m], savedWakeTimestamp[pass.nearestMode])
                     /\ savedWakeTimestamp[m] = savedWakeTimestamp[pass.nearestMode]
                            => pass.nearestMode <= m
        /\ Len(pass.calls) = 1
        /\ pass.calls[1].nextMode = pass.nearestMode

--------------------------------------------------------------------------
\* Some mode above the current one has a nonzero wake timestamp <= now.
DueOrNow(m) ==
    /\ m > powerMode
    /\ pass.preWake[m] # 0
    /\ ~U64Less(PassNowMs, pass.preWake[m])

\* Some mode above the current one has a nonzero wake timestamp < now.
DueBefore(m) ==
    /\ m > powerMode
    /\ pass.preWake[m] # 0
    /\ U64Less(pass.preWake[m], PassNowMs)

Called(sleepMs, mode) ==
    \E c \in 1 .. Len(pass.calls) :
        pass.calls[c] = [sleepMs |-> sleepMs, nextMode |-> mode]

\* C6 as stated: a mode above the current one whose nonzero wake timestamp is
\* due, timestamp <= now and timestamp == now included, gets the callback
\* (0, mode), and the pass neither writes the wake table nor makes the sleep
\* decision.
C6_DueOrNowSwitches ==
    pass.ran => \A m \in Modes : DueOrNow(m) => Called(0, m) /\ NoSleepDecision

\* C6 as amended: the same for a nonzero wake timestamp strictly before now.
C6_DueBeforeNowSwitches ==
    pass.ran => \A m \in Modes : DueBefore(m) => Called(0, m) /\ NoSleepDecision

\* A due higher mode in a pass whose scan found nothing that blocks sleep.
C6_Witness ==
    /\ pass.ran /\ ~pass.scanBlocked
    /\ Len(pass.pre) > 0
    /\ \E m \in Modes : DueBefore(m)
    /\ pass.cannotSleep

\* C7: the callback is invoked at most once in one pass.
C7_AtMostOneCall == pass.ran => Len(pass.calls) <= 1

\* C8 as stated: a pass that authorizes sleep with no owner giving a bound,
\* on mode 0 with no other wake timestamp, calls back with 5000 ms and the
\* current mode.
C8_UnboundedSleepIsPeriod ==
    (Authorized /\ SleepWindows = {} /\ powerMode = 0 /\ OtherSlotsZero)
        => pass.calls = <<[sleepMs |-> TIMER_PERIOD_MS, nextMode |-> powerMode]>>

\* C8 as amended: in that pass the callback gets -1, the value canSleepForMs
\* starts with, and the current mode; the 5000 ms only re-arm the timer.
C8_UnboundedSleepIsMinusOne ==
    (Authorized /\ SleepWindows = {} /\ powerMode = 0 /\ OtherSlotsZero)
        => /\ pass.calls = <<[sleepMs |-> -1, nextMode |-> powerMode]>>
           /\ tmr = PassNowMs + TIMER_PERIOD_MS

\* The only owner held for 1000 ms, the hold ran out, the next pass made the
\* record ST_CANSLEEP and authorized sleep on mode 0.
C8_Witness ==
    /\ Authorized /\ powerMode = 0 /\ OtherSlotsZero
    /\ Len(pass.pre) = 1
    /\ pass.pre[1].state = ST_ACTIVE
    /\ RemainingUs(pass.pre[1], pass.now) = 0
    /\ powerItems[1].state = ST_CANSLEEP

\* C9: _powerCanSleepFor(ref, 3000) with no other owner registered and no
\* other mode with a nonzero wake timestamp invokes the callback exactly once,
\* with (3000, powerMode), for every power mode.
C9_SoleOwnerSleepsInMode ==
    (/\ pass.op = "canSleepFor" /\ pass.arg = 3000
     /\ Len(pass.pre) = 1
     /\ OtherSlotsZero)
        => pass.calls = <<[sleepMs |-> 3000, nextMode |-> powerMode]>>

\* C10: an owner whose record is ST_CANSLEEP keeps it through every handler
\* other than its own _powerHold (or _powerCanSleepFor); _powerCanSleep leaves
\* the caller's record ST_CANSLEEP; and a pass that is blocked while the owner
\* is ST_CANSLEEP is blocked by another owner's record or by a due higher mode.
C10_Step ==
    /\ pass'.op = "canSleep"
          => powerItems'[IndexOf(powerItems', pass'.ref)].state = ST_CANSLEEP
    /\ \A k \in 1 .. Len(powerItems) :
          (/\ powerItems[k].state = ST_CANSLEEP
           /\ ~(pass'.op \in {"hold", "canSleepFor"} /\ pass'.ref = powerItems[k].ref))
              => /\ HasRef(powerItems', powerItems[k].ref)
                 /\ powerItems'[IndexOf(powerItems', powerItems[k].ref)].state
                        = ST_CANSLEEP
                 /\ (pass'.ran /\ pass'.cannotSleep)
                        => \/ \E j \in 1 .. Len(pass'.pre) :
                                 /\ pass'.pre[j].ref # powerItems[k].ref
                                 /\ Blocks(pass'.pre[j], pass'.now)
                           \/ pass'.calls # <<>>

C10_PermitSleepIdempotent == [][C10_Step]_vars

\* An owner whose record _powerCanSleep created (sleepUntil still zero) is
\* still ST_CANSLEEP after another owner's _powerCanSleep ran a pass, and
\* that pass authorized sleep.
C10_Witness ==
    /\ pass.op = "canSleep" /\ Authorized
    /\ \E k \in 1 .. Len(pass.pre) :
          /\ pass.pre[k].ref # pass.ref
          /\ pass.pre[k].state = ST_CANSLEEP
          /\ pass.pre[k].sleepUntil = [tv_sec |-> 0, tv_usec |-> 0]
          /\ powerItems[k].state = ST_CANSLEEP

--------------------------------------------------------------------------
\* The record of owner ref in a list.
ItemOf(items, ref) == items[IndexOf(items, ref)]

\* C11: _powerHold(ref, d) changes only the record of ref, to ST_ACTIVE with
\* deadline now + d whatever the deadline was: it runs no pass, makes no
\* callback, leaves every other record, the wake table and the timer alone.
\* _powerCanSleepFor and _powerCanSleep each run one pass on the list as
\* their own record update left it, and that pass re-arms the timer.
C11_Step ==
    /\ pass'.op = "hold"
          => /\ ~pass'.ran
             /\ pass'.calls = <<>>
             /\ savedWakeTimestamp' = savedWakeTimestamp
             /\ tmr' = tmr
             /\ ItemOf(powerItems', pass'.ref).state = ST_ACTIVE
             /\ RemainingUs(ItemOf(powerItems', pass'.ref), clock) = pass'.arg * 1000
             /\ \A k \in 1 .. Len(powerItems) :
                   powerItems[k].ref # pass'.ref
                      => ItemOf(powerItems', powerItems[k].ref) = powerItems[k]
             /\ Len(powerItems') = Len(powerItems)
                                      + (IF HasRef(powerItems, pass'.ref) THEN 0 ELSE 1)
    /\ pass'.op \in {"canSleep", "canSleepFor"}
          => /\ pass'.ran
             /\ tmr' = getCurrentTimeMs(clock) + TIMER_PERIOD_MS
             /\ \A k \in 1 .. Len(powerItems) :
                   powerItems[k].ref # pass'.ref
                      => ItemOf(pass'.pre, powerItems[k].ref) = powerItems[k]
             /\ ItemOf(pass'.pre, pass'.ref).state
                    = (IF pass'.op = "canSleep" THEN ST_CANSLEEP ELSE ST_CANSLEEP_UNTIL)
             /\ Len(pass'.calls) <= NO_POWER_MODES

C11_HoldRunsNoPass == [][C11_Step]_vars

\* A second hold of an owner, one second after its first, next to another
\* owner whose record would let a pass authorize sleep; the timer still
\* expires one period after boot.
C11_Witness ==
    /\ pass.op = "hold"
    /\ Len(powerItems) = 2
    /\ getCurrentTimeMs(clock) = getCurrentTimeMs(BootTime) + 1000
    /\ tmr = getCurrentTimeMs(BootTime) + TIMER_PERIOD_MS
    /\ \E it \in PreItems : it.ref # pass.ref /\ it.state = ST_CANSLEEP

--------------------------------------------------------------------------
\* Owners whose last call is _powerHold.
Holders == { r \in Refs : pass.last[r] = "hold" }

\* C13 as stated: while the last call of some owner is _powerHold, no pass
\* authorizes sleep, however much time has passed since the call.
C13_HoldBlocksForever ==
    (pass.ran /\ Holders # {}) => ~Authorized

\* C13 as amended: an owner whose last call is _powerHold blocks every pass
\* that runs before its deadline; the first pass at or after the deadline
\* makes its record ST_CANSLEEP, and from then on the record stays
\* ST_CANSLEEP and blocks no pass.
C13_HoldBlocksUntilDeadline ==
    pass.ran =>
        \A k \in 1 .. Len(pass.pre) :
            pass.pre[k].ref \in Holders
                => /\ pass.pre[k].state \in {ST_ACTIVE, ST_CANSLEEP}
                   /\ (pass.pre[k].state = ST_ACTIVE
                          /\ RemainingUs(pass.pre[k], pass.now) > 0)
                         => powerItems[k] = pass.pre[k] /\ NoSleepDecision
                   /\ (pass.pre[k].state = ST_ACTIVE
                          /\ RemainingUs(pass.pre[k], pass.now) <= 0)
                         => powerItems[k] = [pass.pre[k] EXCEPT !.state = ST_CANSLEEP]
                   /\ pass.pre[k].state = ST_CANSLEEP
                         => /\ RemainingUs(pass.pre[k], pass.now) <= 0
                            /\ powerItems[k] = pass.pre[k]
                   /\ (RemainingUs(pass.pre[k], pass.now) <= 0 /\ pass.scanBlocked)
                         => \E j \in 1 .. Len(pass.pre) :
                               j # k /\ Blocks(pass.pre[j], pass.now)

\* The timer pass one period after boot finds the hold of an owner that never
\* called again run out, and authorizes sleep.
C13_Witness ==
    /\ pass.op = "timer" /\ Authorized
    /\ \E k \in 1 .. Len(pass.pre) :
          /\ pass.pre[k].ref \in Holders
          /\ pass.pre[k].state = ST_ACTIVE
          /\ powerItems[k].state = ST_CANSLEEP

--------------------------------------------------------------------------
\* C15: every pass, blocked, switching or authorizing, ends with the timer
\* re-armed to expire one period (5000 ms) after the pass, whatever its
\* earlier expiry time was; a timer pass starts when the timer expires and
\* never less than one period after the pass before it (or after init).
C15_Step ==
    /\ pass'.ran => tmr' = getCurrentTimeMs(clock') + TIMER_PERIOD_MS
    /\ ~pass'.ran => tmr' = tmr
    /\ pass'.op = "timer"
          => /\ getCurrentTimeMs(clock') - pass.lastPassMs >= TIMER_PERIOD_MS
             /\ getCurrentTimeMs(clock') = tmr

--------------------------------------------------------------------------
AllCanSleep == \A k \in 1 .. Len(powerItems) : powerItems[k].state = ST_CANSLEEP

\* The handler of this step is not a call of the owner of powerItems[k].
NotCalledBy(k) == pass'.ref # powerItems[k].ref

\* C20, the steps: a pass never takes a record out of ST_CANSLEEP; it takes a
\* record out of ST_CANSLEEP_UNTIL only to ST_ACTIVE, exactly when less than
\* 2000 ms of its window are left, and that pass is blocked; it takes an
\* ST_ACTIVE record to ST_CANSLEEP exactly when its deadline is reached.
C20_Step ==
    \A k \in 1 .. Len(powerItems) :
        NotCalledBy(k) =>
            LET old == powerItems[k]
                new == ItemOf(powerItems', old.ref)
                rem == RemainingUs(old, clock')
            IN  /\ old.state = ST_CANSLEEP => new.state = ST_CANSLEEP
                /\ old.state = ST_CANSLEEP_UNTIL
                      => /\ new.state \in {ST_CANSLEEP_UNTIL, ST_ACTIVE}
                         /\ new.state = ST_ACTIVE <=> (pass'.ran /\ rem < 2000000)
                         /\ new.state = ST_ACTIVE => pass'.cannotSleep
                /\ old.state = ST_ACTIVE
                      => /\ new.state \in {ST_ACTIVE, ST_CANSLEEP}
                         /\ new.state = ST_CANSLEEP <=> (pass'.ran /\ rem <= 0)
                         /\ (pass'.ran /\ rem > 0) => pass'.cannotSleep

\* C20: if from some point on no owner calls _powerHold or _powerCanSleepFor
\* and the timer keeps firing, every record ends up ST_CANSLEEP for good, by
\* the steps above.
C20_EveryRecordEndsCanSleep ==
    /\ (<>[](pass.op \notin {"hold", "canSleepFor"})) => <>[]AllCanSleep
    /\ [][C20_Step]_vars

\* A timer pass demotes a record that an earlier pass had taken from
\* ST_CANSLEEP_UNTIL to ST_ACTIVE, and every record is ST_CANSLEEP.
C20_Witness ==
    /\ pass.op = "timer"
    /\ AllCanSleep
    /\ \E k \in 1 .. Len(pass.pre) :
          /\ pass.last[pass.pre[k].ref] = "permit"
          /\ pass.pre[k].state = ST_ACTIVE
          /\ RemainingUs(pass.pre[k], pass.now) < -3000000

--------------------------------------------------------------------------
\* C18: every callback invocation carries a sleep duration >= 0, in the
\* same-mode branch and in the mode-switch branch.
C18_DurationNeverNegative ==
    \A c \in 1 .. Len(pass.calls) : pass.calls[c].sleepMs >= 0

--------------------------------------------------------------------------
\* The wake timestamp ts counts as due at the time now.
DueAt(ts, now) == WakeDue(ts, getCurrentTimeMs(now))

\* C19, the steps: no handler changes powerMode; no handler writes a wake
\* slot other than savedWakeTimestamp[powerMode], and that one only in a pass
\* that authorizes sleep; a pass that finds a mode above the current one with
\* a due nonzero timestamp calls (0, that mode) and does not authorize sleep;
\* and a due timestamp of such a mode is still there and still due after
\* every step.
C19_Step ==
    /\ powerMode' = powerMode
    /\ \A m \in Modes \ {powerMode} : savedWakeTimestamp'[m] = savedWakeTimestamp[m]
    /\ savedWakeTimestamp'[powerMode] # savedWakeTimestamp[powerMode]
          => pass'.ran /\ ~pass'.cannotSleep
    /\ \A m \in Modes :
          (m > powerMode /\ DueAt(savedWakeTimestamp[m], clock))
              => /\ DueAt(savedWakeTimestamp'[m], clock')
                 /\ pass'.ran
                       => /\ \E c \in 1 .. Len(pass'.calls) :
                                pass'.calls[c] = [sleepMs |-> 0, nextMode |-> m]
                          /\ pass'.cannotSleep
                          /\ savedWakeTimestamp' = savedWakeTimestamp

\* C19: the frame of a pass, as the steps above, for every step.
C19_PassFrame == [][C19_Step]_vars

\* An earlier pass wrote the slot of the current mode, which is above 0, and
\* left the other slots alone; a later pass finds a deeper mode due and calls
\* (0, that mode).
C19_Witness ==
    /\ pass.ran /\ pass.cannotSleep
    /\ powerMode > 0
    /\ savedWakeTimestamp[powerMode] \notin { t[powerMode + 1] : t \in WakeTables }
    /\ \E t \in WakeTables :
          \A m \in Modes \ {powerMode} : savedWakeTimestamp[m] = t[m + 1]
    /\ \E m \in Modes : DueBefore(m) /\ Called(0, m)

--------------------------------------------------------------------------
\* The list items in the order p.
Permuted(items, p) == [k \in 1 .. Len(items) |-> items[p[k]]]

\* C17: the outcome of the scan does not depend on the order of the list:
\* scanning any permutation of the records gives the same cannotSleep, the
\* same canSleepForMs and the same state of every record.
C17_ScanOrderIndependent ==
    pass.op = "scan" =>
        \A p \in Permutations(1 .. Len(pass.pre)) :
            LET q == Permuted(pass.pre, p)
                r == ScanTimed(q, ScanReads(pass.now, Len(q), pass.arg))
            IN  /\ r.cannotSleep = pass.scanBlocked
                /\ r.canSleepForMs = pass.canSleepForMs
                /\ \A k \in 1 .. Len(q) :
                      ItemOf(r.items, q[k].ref) = ItemOf(powerItems, q[k].ref)

--------------------------------------------------------------------------
\* Task t makes the immediate-switch callbacks of its pass in this step.
SwitchesNow(t) ==
    /\ thr[t].pc = "modes"
    /\ thr'[t].pc # "modes"
    /\ pass'.calls # <<>>

\* C12 as stated: when a pass invokes the callback (0, mode) for a due higher
\* mode, no owner record has been evaluated yet: the records are still as the
\* pass found them.
C12_CallbackBeforeEvaluation ==
    [][\A t \in Tasks : SwitchesNow(t) => powerItems = pass.pre]_vars

\* C12 as amended: when a pass invokes the callback (0, mode) for a due
\* higher mode, every owner record has been evaluated already: the records are
\* as the scan leaves them (expired ST_ACTIVE demoted, short
\* ST_CANSLEEP_UNTIL promoted), and the scan ran before any callback.
C12_Step ==
    \A t \in Tasks :
        /\ SwitchesNow(t)
              => /\ pass.ran /\ pass.calls = <<>>
                 /\ powerItems = Scan(pass.pre, pass.now).items
                 /\ powerItems' = powerItems
        /\ (thr[t].pc = "scan" /\ thr'[t].pc # "scan")
              => /\ pass'.calls = <<>>
                 /\ pass'.pre = powerItems

C12_CallbackAfterEvaluation == [][C12_Step]_vars

\* A pass has called (0, mode) for a due higher mode after its scan demoted
\* or promoted a record.
C12_Witness ==
    \E t \in Tasks :
        /\ thr[t].pc = "decide"
        /\ \E m \in Modes : DueBefore(m) /\ Called(0, m)
        /\ \E k \in 1 .. Len(pass.pre) : powerItems[k].state # pass.pre[k].state

--------------------------------------------------------------------------
\* Task t is between its xSemaphoreTake and its xSemaphoreGive.
Inside(t) ==
    \/ thr[t].pc \in {"update", "scan", "modes", "decide", "reset", "give"}
    \/ thr[t].inCb

C14_MutexInv ==
    /\ \A t, u \in Tasks : (Inside(t) /\ Inside(u)) => t = u
    /\ \A t \in Tasks : Inside(t) => mux = t

\* A record, the wake table or the timer changes, or the callback is invoked,
\* only in a step of the task that holds mux, all other tasks standing still;
\* and no record changes between the scan of a pass and its callbacks.
C14_Step ==
    /\ (\/ powerItems' # powerItems
        \/ savedWakeTimestamp' # savedWakeTimestamp
        \/ tmr' # tmr
        \/ (pass'.calls # pass.calls /\ pass'.calls # <<>>))
          => \E t \in Tasks :
                /\ mux = t /\ Inside(t)
                /\ thr'[t] # thr[t]
                /\ \A u \in Tasks \ {t} : thr'[u] = thr[u]
    /\ (\E t \in Tasks : thr[t].pc \in {"modes", "decide"}) => powerItems' = powerItems

\* C14: at most one task is inside a critical section at a time, and every
\* change of a record, of the registry and of the wake table and every
\* callback happens in a step of the task holding mux; no record changes
\* between a pass's scan and its callbacks.
C14_MutualExclusion == []C14_MutexInv /\ [][C14_Step]_vars

\* One owner task is inside a pass, past the scan, having written the wake
\* table and invoked the callback, while the other owner task and the timer
\* task wait in xSemaphoreTake.
C14_Witness ==
    /\ thr["a"].pc = "reset"
    /\ thr["b"].pc = "take"
    /\ thr["tmr"].pc = "take"
    /\ Authorized
    /\ Len(pass.calls) = 1

--------------------------------------------------------------------------
\* C16, the steps: once a task called back into the manager from the
\* callback, it stays in its xSemaphoreTake holding mux, and no task waiting
\* in xSemaphoreTake ever gets past it: nothing of the manager changes again.
C16_Step ==
    \A t \in Tasks :
        thr[t].inCb
            => /\ thr[t].pc = "take" /\ mux = t
               /\ thr'[t] = thr[t] /\ mux' = mux
               /\ \A u \in Tasks : thr[u].pc = "take" => thr'[u] = thr[u]
               /\ \A u \in Tasks \ {t} : ~Inside(u) /\ ~Inside(u)'
               /\ UNCHANGED <<powerItems, savedWakeTimestamp, tmr>>

\* C16: a callback that calls _powerHold, _powerCanSleepFor or _powerCanSleep
\* deadlocks the manager.
C16_ReentrantCallbackDeadlocks == [][C16_Step]_vars

\* The timer task called back into the manager from the callback of its
\* pass; both owner tasks have called since and wait in xSemaphoreTake.
C16_Witness ==
    /\ thr["tmr"].inCb /\ thr["tmr"].pc = "take"
    /\ mux = "tmr"
    /\ thr["a"].pc = "take" /\ ~thr["a"].inCb
    /\ thr["b"].pc = "take" /\ ~thr["b"].inCb

====
